---- MODULE Spec2Model ----
(***************************************************************************)
(* Task management backend: the [functional].[task] table, the five stored *)
(* procedures spTaskCreate / spTaskUpdate / spTaskGet / spTaskList /       *)
(* spTaskDelete that are its only read and write path, and the request     *)
(* handlers that call them.                                                *)
(*                                                                         *)
(* Strings are sequences of one-character strings.  A nullable value is a  *)
(* sequence of length at most one: Null is <<>> and Some(v) is <<v>>.      *)
(* Time is a tick counter; a calendar day is TicksPerDay ticks.            *)
(***************************************************************************)
EXTENDS Integers, Sequences, FiniteSets, TLC

VARIABLES task, now, last, prev, proc, pool, driver, caller

vars == <<task, now, last, prev, proc, pool, driver, caller>>

(***************************** bounds ************************************)
\* rows the task table may hold
MaxTasks == 2
\* last tick of the UTC clock
MaxNow == 2
\* ticks of the clock per calendar day
TicksPerDay == 2
\* rows of the table in the field-validation state machine
MaxFieldTasks == 1
\* procedure calls that run at the same time
MaxSessions == 3
\* requests that ask for the connection pool at the same time
MaxCallers == 3

(************************* program constants *****************************)
TitleParamLen == 100
TitleMinLen == 3
TitleMaxLen == 100
DescParamLen == 1000
DescMaxLen == 1000
ThrowNumber == 51000
NotNullNumber == 515
CheckNumber == 547
DeadlockNumber == 1205
ZodTitleMax == 100
ZodTitleMin == 3
ZodDescMax == 1000

(************************* nullable values *******************************)
Null == <<>>
Some(v) == <<v>>
Val(o) == o[1]

(****************************** strings **********************************)
SPACE == " "
TAB == "\t"
Rep(c, n) == [i \in 1..n |-> c]

\* T-SQL RTRIM / LTRIM: remove trailing / leading space characters (char 32)
RTRIM(s) ==
  LET trailing == {i \in 1..Len(s) : \A j \in i..Len(s) : s[j] = SPACE}
  IN SubSeq(s, 1, Len(s) - Cardinality(trailing))

LTRIM(s) ==
  LET leading == {i \in 1..Len(s) : \A j \in 1..i : s[j] = SPACE}
  IN SubSeq(s, Cardinality(leading) + 1, Len(s))

\* T-SQL LEN: number of characters, trailing spaces excluded
LEN(s) == Len(RTRIM(s))

\* T-SQL string equality: the shorter operand is padded with spaces
SqlEq(s, t) == RTRIM(s) = RTRIM(t)

\* a value bound to a procedure parameter declared NVARCHAR(n) is cut to
\* its first n characters
NVarCharParam(o, n) ==
  IF o = Null THEN Null
  ELSE Some(SubSeq(Val(o), 1, IF Len(Val(o)) < n THEN Len(Val(o)) ELSE n))

(*************************** time ****************************************)
\* CAST(GETUTCDATE() AS DATE)
CastAsDate(t) == t \div TicksPerDay

(********************** accounts and users *******************************)
\* rows of [subscription].[account]
account == {[idAccount |-> 1], [idAccount |-> 2]}

\* rows of [security].[user]
user == {[idUser |-> 1, idAccount |-> 1],
         [idUser |-> 2, idAccount |-> 1],
         [idUser |-> 3, idAccount |-> 2]}

AccountExists(idAccount) == \E acc \in account : acc.idAccount = idAccount

UserExists(idUser, idAccount) ==
  \E usr \in user : usr.idUser = idUser /\ usr.idAccount = idAccount

(*************************** results *************************************)
NoReq == [title |-> Null, description |-> Null, dueDate |-> Null,
          priority |-> Null, status |-> Null]

Req(title, description, dueDate, priority, status) ==
  [title |-> title, description |-> description, dueDate |-> dueDate,
   priority |-> priority, status |-> status]

\* ;THROW 51000, message, 1 before any write: the table is left as it was
Throw(tbl, message) ==
  [error |-> message, number |-> ThrowNumber, task |-> tbl, recordset |-> <<>>]

\* a statement failing inside BEGIN TRY: ROLLBACK TRAN; THROW
Rollback(tbl, message, number) ==
  [error |-> message, number |-> number, task |-> tbl, recordset |-> <<>>]

Ok(tbl, recordset) ==
  [error |-> "ok", number |-> 0, task |-> tbl, recordset |-> recordset]

(************************ the task table *********************************)
\* IDENTITY(1, 1)
NextIdentity(tbl) == Len(tbl) + 1

\* TaskMatch without the idUser condition
TaskMatch_AnyUser(row, idAccount, idUser, idTask) ==
  /\ row.idTask = idTask
  /\ row.idAccount = idAccount
  /\ row.deleted = FALSE

\* TaskMatch without the deleted = 0 condition
TaskMatch_DeletedToo(row, idAccount, idUser, idTask) ==
  /\ row.idTask = idTask
  /\ row.idAccount = idAccount
  /\ row.idUser = idUser

\* WHERE idTask = @idTask AND idAccount = @idAccount AND idUser = @idUser
\*   AND deleted = 0
TaskMatch(row, idAccount, idUser, idTask) ==
  /\ row.idTask = idTask
  /\ row.idAccount = idAccount
  /\ row.idUser = idUser
  /\ row.deleted = FALSE

TaskExists(tbl, idAccount, idUser, idTask) ==
  \E i \in 1..Len(tbl) : TaskMatch(tbl[i], idAccount, idUser, idTask)

\* the columns selected by spTaskGet and spTaskList
Columns(row) ==
  [idTask |-> row.idTask, title |-> row.title, description |-> row.description,
   dueDate |-> row.dueDate, priority |-> row.priority, status |-> row.status,
   dateCreated |-> row.dateCreated, dateModified |-> row.dateModified]

\* chkTask_Priority and chkTask_Status
chkTask(priority, status) ==
  /\ 0 <= priority /\ priority <= 2
  /\ 0 <= status /\ status <= 2

(********************** field validation *********************************)
\* ValidateFields rejecting a due date of the current day as well
ValidateFields_TodayRejected(title, description, dueDate, priority, clock) ==
  IF title = Null \/ SqlEq(LTRIM(RTRIM(Val(title))), <<>>) THEN "titleRequired"
  ELSE IF LEN(LTRIM(RTRIM(Val(title)))) < TitleMinLen THEN "titleTooShort"
  ELSE IF LEN(Val(title)) > TitleMaxLen THEN "titleTooLong"
  ELSE IF description # Null /\ LEN(Val(description)) > DescMaxLen
    THEN "descriptionTooLong"
  ELSE IF dueDate # Null /\ Val(dueDate) <= CastAsDate(clock) THEN "dueDateInPast"
  ELSE IF priority # Null /\ ~(0 <= Val(priority) /\ Val(priority) <= 2)
    THEN "invalidPriority"
  ELSE "ok"

\* the IF ... THROW chain shared by spTaskCreate and spTaskUpdate, on the
\* parameters as the procedure receives them; "ok" when no IF fires.
\* A comparison with NULL is UNKNOWN, so its IF does not fire.
ValidateFields(title, description, dueDate, priority, clock) ==
  IF title = Null \/ SqlEq(LTRIM(RTRIM(Val(title))), <<>>) THEN "titleRequired"
  ELSE IF LEN(LTRIM(RTRIM(Val(title)))) < TitleMinLen THEN "titleTooShort"
  ELSE IF LEN(Val(title)) > TitleMaxLen THEN "titleTooLong"
  ELSE IF description # Null /\ LEN(Val(description)) > DescMaxLen
    THEN "descriptionTooLong"
  ELSE IF dueDate # Null /\ Val(dueDate) < CastAsDate(clock) THEN "dueDateInPast"
  ELSE IF priority # Null /\ ~(0 <= Val(priority) /\ Val(priority) <= 2)
    THEN "invalidPriority"
  ELSE "ok"

\* ValidateStatus without the lower bound
ValidateStatus_UpperOnly(status) ==
  IF status # Null /\ Val(status) > 2 THEN "invalidStatus" ELSE "ok"

ValidateStatus(status) ==
  IF status # Null /\ ~(0 <= Val(status) /\ Val(status) <= 2)
    THEN "invalidStatus"
  ELSE "ok"

\* TenancyGuard looking for the user under any account
TenancyGuard_UserAnywhere(idAccount, idUser) ==
  IF ~AccountExists(idAccount) THEN "accountDoesntExist"
  ELSE IF ~(\E usr \in user : usr.idUser = idUser) THEN "userDoesntExist"
  ELSE "ok"

\* the account and user existence checks
TenancyGuard(idAccount, idUser) ==
  IF ~AccountExists(idAccount) THEN "accountDoesntExist"
  ELSE IF ~UserExists(idUser, idAccount) THEN "userDoesntExist"
  ELSE "ok"

(************************ stored procedures ******************************)
\* InsertedRow storing the title as given
InsertedRow_Untrimmed(tbl, clock, idAccount, idUser, title, description, dueDate, priority) ==
  [idTask |-> NextIdentity(tbl), idAccount |-> idAccount, idUser |-> idUser,
   title |-> Val(title), description |-> description,
   dueDate |-> dueDate, priority |-> Val(priority), status |-> 0,
   dateCreated |-> clock, dateModified |-> clock, deleted |-> FALSE]

InsertedRow(tbl, clock, idAccount, idUser, title, description, dueDate, priority) ==
  [idTask |-> NextIdentity(tbl), idAccount |-> idAccount, idUser |-> idUser,
   title |-> LTRIM(RTRIM(Val(title))), description |-> description,
   dueDate |-> dueDate, priority |-> Val(priority), status |-> 0,
   dateCreated |-> clock, dateModified |-> clock, deleted |-> FALSE]

\* spTaskCreate that inserts before it checks the account and the user
spTaskCreate_TenancyLate(tbl, clock, idAccount, idUser, titleArg, descriptionArg, dueDate, priority) ==
  LET title == NVarCharParam(titleArg, TitleParamLen)
      description == NVarCharParam(descriptionArg, DescParamLen)
      fields == ValidateFields(title, description, dueDate, priority, clock)
      tenancy == TenancyGuard(idAccount, idUser)
  IN IF fields # "ok" THEN Throw(tbl, fields)
     ELSE IF priority = Null THEN Rollback(tbl, "cannotInsertNull", NotNullNumber)
     ELSE IF ~chkTask(Val(priority), 0)
       THEN Rollback(tbl, "checkConstraint", CheckNumber)
     ELSE IF tenancy # "ok"
       THEN Throw(Append(tbl, InsertedRow(tbl, clock, idAccount, idUser, title,
                                          description, dueDate, priority)),
                  tenancy)
     ELSE Ok(Append(tbl, InsertedRow(tbl, clock, idAccount, idUser, title,
                                     description, dueDate, priority)),
             <<[idTask |-> NextIdentity(tbl)]>>)

spTaskCreate(tbl, clock, idAccount, idUser, titleArg, descriptionArg, dueDate, priority) ==
  LET title == NVarCharParam(titleArg, TitleParamLen)
      description == NVarCharParam(descriptionArg, DescParamLen)
      fields == ValidateFields(title, description, dueDate, priority, clock)
      tenancy == TenancyGuard(idAccount, idUser)
  IN IF fields # "ok" THEN Throw(tbl, fields)
     ELSE IF tenancy # "ok" THEN Throw(tbl, tenancy)
     ELSE IF priority = Null THEN Rollback(tbl, "cannotInsertNull", NotNullNumber)
     ELSE IF ~chkTask(Val(priority), 0)
       THEN Rollback(tbl, "checkConstraint", CheckNumber)
     ELSE Ok(Append(tbl, InsertedRow(tbl, clock, idAccount, idUser, title,
                                     description, dueDate, priority)),
             <<[idTask |-> NextIdentity(tbl)]>>)

\* UpdatedRow that also resets dateCreated
UpdatedRow_Recreated(row, clock, title, description, dueDate, priority, status) ==
  [row EXCEPT !.title = LTRIM(RTRIM(Val(title))),
              !.description = description,
              !.dueDate = dueDate,
              !.priority = Val(priority),
              !.status = Val(status),
              !.dateCreated = clock,
              !.dateModified = clock]

\* UpdatedRow storing the status that follows the one given
UpdatedRow_StatusShifted(row, clock, title, description, dueDate, priority, status) ==
  [row EXCEPT !.title = LTRIM(RTRIM(Val(title))),
              !.description = description,
              !.dueDate = dueDate,
              !.priority = Val(priority),
              !.status = Val(status) + 1,
              !.dateModified = clock]

\* UpdatedRow whose SET list has no status column
UpdatedRow_StatusKept(row, clock, title, description, dueDate, priority, status) ==
  [row EXCEPT !.title = LTRIM(RTRIM(Val(title))),
              !.description = description,
              !.dueDate = dueDate,
              !.priority = Val(priority),
              !.dateModified = clock]

UpdatedRow(row, clock, title, description, dueDate, priority, status) ==
  [row EXCEPT !.title = LTRIM(RTRIM(Val(title))),
              !.description = description,
              !.dueDate = dueDate,
              !.priority = Val(priority),
              !.status = Val(status),
              !.dateModified = clock]

\* spTaskUpdate with the account and user checks of the other procedures
spTaskUpdate_Guarded(tbl, clock, idAccount, idUser, idTask, titleArg, descriptionArg, dueDate, priority, status) ==
  LET title == NVarCharParam(titleArg, TitleParamLen)
      description == NVarCharParam(descriptionArg, DescParamLen)
      fields == ValidateFields(title, description, dueDate, priority, clock)
      st == ValidateStatus(status)
      tenancy == TenancyGuard(idAccount, idUser)
  IN IF fields # "ok" THEN Throw(tbl, fields)
     ELSE IF st # "ok" THEN Throw(tbl, st)
     ELSE IF tenancy # "ok" THEN Throw(tbl, tenancy)
     ELSE IF ~TaskExists(tbl, idAccount, idUser, idTask)
       THEN Throw(tbl, "taskDoesntExist")
     ELSE Ok([i \in 1..Len(tbl) |->
                IF TaskMatch(tbl[i], idAccount, idUser, idTask)
                  THEN UpdatedRow(tbl[i], clock, title, description, dueDate,
                                  priority, status)
                  ELSE tbl[i]],
             <<[idTask |-> idTask]>>)

spTaskUpdate(tbl, clock, idAccount, idUser, idTask, titleArg, descriptionArg, dueDate, priority, status) ==
  LET title == NVarCharParam(titleArg, TitleParamLen)
      description == NVarCharParam(descriptionArg, DescParamLen)
      fields == ValidateFields(title, description, dueDate, priority, clock)
      st == ValidateStatus(status)
  IN IF fields # "ok" THEN Throw(tbl, fields)
     ELSE IF st # "ok" THEN Throw(tbl, st)
     ELSE IF ~TaskExists(tbl, idAccount, idUser, idTask)
       THEN Throw(tbl, "taskDoesntExist")
     ELSE IF priority = Null \/ status = Null
       THEN Rollback(tbl, "cannotInsertNull", NotNullNumber)
     ELSE IF ~chkTask(Val(priority), Val(status))
       THEN Rollback(tbl, "checkConstraint", CheckNumber)
     ELSE Ok([i \in 1..Len(tbl) |->
                IF TaskMatch(tbl[i], idAccount, idUser, idTask)
                  THEN UpdatedRow(tbl[i], clock, title, description, dueDate,
                                  priority, status)
                  ELSE tbl[i]],
             <<[idTask |-> idTask]>>)

spTaskGet(tbl, idAccount, idUser, idTask) ==
  LET tenancy == TenancyGuard(idAccount, idUser)
  IN IF tenancy # "ok" THEN Throw(tbl, tenancy)
     ELSE IF ~TaskExists(tbl, idAccount, idUser, idTask)
       THEN Throw(tbl, "taskDoesntExist")
     ELSE Ok(tbl, <<Columns(tbl[CHOOSE i \in 1..Len(tbl) :
                                  TaskMatch(tbl[i], idAccount, idUser, idTask)])>>)

\* DeletedRow that leaves the deleted flag as it was
DeletedRow_FlagKept(row, clock) ==
  [row EXCEPT !.dateModified = clock]

\* DeletedRow that leaves dateModified as it was
DeletedRow_DateKept(row, clock) ==
  [row EXCEPT !.deleted = TRUE]

DeletedRow(row, clock) ==
  [row EXCEPT !.deleted = TRUE, !.dateModified = clock]

spTaskDelete(tbl, clock, idAccount, idUser, idTask) ==
  LET tenancy == TenancyGuard(idAccount, idUser)
  IN IF tenancy # "ok" THEN Throw(tbl, tenancy)
     ELSE IF ~TaskExists(tbl, idAccount, idUser, idTask)
       THEN Throw(tbl, "taskDoesntExist")
     ELSE Ok([i \in 1..Len(tbl) |->
                IF TaskMatch(tbl[i], idAccount, idUser, idTask)
                  THEN DeletedRow(tbl[i], clock)
                  ELSE tbl[i]],
             <<[idTask |-> idTask]>>)

\* ListWhere without the deleted = 0 condition
ListWhere_WithDeleted(row, idAccount, idUser, status, priority) ==
  /\ row.idAccount = idAccount
  /\ row.idUser = idUser
  /\ (status = Null \/ row.status = Val(status))
  /\ (priority = Null \/ row.priority = Val(priority))

\* WHERE clause of spTaskList; a NULL filter imposes no restriction
ListWhere(row, idAccount, idUser, status, priority) ==
  /\ row.idAccount = idAccount
  /\ row.idUser = idUser
  /\ row.deleted = FALSE
  /\ (status = Null \/ row.status = Val(status))
  /\ (priority = Null \/ row.priority = Val(priority))

\* dueDate ASC: the engine sorts NULL as the lowest value
DueDateAsc(d1, d2) ==
  \/ d1 = Null /\ d2 # Null
  \/ d1 # Null /\ d2 # Null /\ Val(d1) < Val(d2)

\* ORDER BY priority DESC, dueDate ASC, dateCreated DESC: r1 sorts strictly
\* before r2
OrderBefore(r1, r2) ==
  \/ r1.priority > r2.priority
  \/ r1.priority = r2.priority /\ DueDateAsc(r1.dueDate, r2.dueDate)
  \/ r1.priority = r2.priority /\ r1.dueDate = r2.dueDate
       /\ r1.dateCreated > r2.dateCreated

\* every sequence of the rows of S that the ORDER BY allows (rows that tie
\* on all three keys come in either order)
Orderings(S) ==
  LET n == Cardinality(S)
  IN {s \in [1..n -> S] :
        /\ \A i, j \in 1..n : i # j => s[i] # s[j]
        /\ \A i, j \in 1..n : i < j => ~OrderBefore(s[j], s[i])}

\* the set of results spTaskList may return
spTaskList(tbl, idAccount, idUser, status, priority) ==
  LET tenancy == TenancyGuard(idAccount, idUser)
      selected == {Columns(tbl[i]) : i \in
                     {k \in 1..Len(tbl) :
                        ListWhere(tbl[k], idAccount, idUser, status, priority)}}
  IN IF tenancy # "ok" THEN {Throw(tbl, tenancy)}
     ELSE {Ok(tbl, rs) : rs \in Orderings(selected)}

\* EngineFault without the ROLLBACK TRAN: what was written stays
EngineFault_NoRollback(r, tbl) ==
  IF r.error = "ok"
    THEN [error |-> "deadlockVictim", number |-> DeadlockNumber,
          task |-> r.task, recordset |-> <<>>]
    ELSE r

\* a statement of the transaction of a call that would have returned r is
\* failed by the engine (the session is chosen as a deadlock victim):
\* BEGIN CATCH ROLLBACK TRAN; THROW.  A call that threw before BEGIN TRAN
\* has no transaction to fail.
EngineFault(r, tbl) ==
  IF r.error = "ok" THEN Rollback(tbl, "deadlockVictim", DeadlockNumber) ELSE r

(************************* request handlers ******************************)
\* a value of a request body or query string: a field that is not there
\* (undefined), the JSON null, or a value
Undefined == <<>>
JsonNull == <<Null>>
Json(v) == <<Some(v)>>
JsonValue(j) == Val(Val(j))
HasValue(j) == j # Undefined /\ j # JsonNull

\* JavaScript  x || null  on a string / on a number / on a date string:
\* every falsy x (undefined, null, the empty string, the number 0) gives null
OrNullString(j) ==
  IF ~HasValue(j) \/ JsonValue(j) = <<>> THEN Null ELSE Some(JsonValue(j))

OrNullNumber(j) ==
  IF ~HasValue(j) \/ JsonValue(j) = 0 THEN Null ELSE Some(JsonValue(j))

\* a due date travels as an ISO-8601 string, here the number of its day
OrNullDate(j) ==
  IF ~HasValue(j) THEN Null ELSE Some(JsonValue(j))

\* the credential CrudController.validateRequest gives every request
credential == [idAccount |-> 1, idUser |-> 1]

\* zStringWithMax(100).min(3): a string of 3 to 100 characters
ZodTitle(j) ==
  /\ HasValue(j)
  /\ Len(JsonValue(j)) >= 1
  /\ Len(JsonValue(j)) <= ZodTitleMax
  /\ Len(JsonValue(j)) >= ZodTitleMin

\* zNullableStringWithMax(1000): null or a string of at most 1000 characters
ZodDescription(j) ==
  /\ j # Undefined
  /\ j = JsonNull \/ Len(JsonValue(j)) <= ZodDescMax

\* z.number().int().min(0).max(2)
ZodEnum(j) == HasValue(j) /\ 0 <= JsonValue(j) /\ JsonValue(j) <= 2

\* z.number().int().min(0).max(2).optional().default(1)
ZodPriorityDefault(j) == j = Undefined \/ ZodEnum(j)

PriorityOrDefault(j) == IF j = Undefined THEN 1 ELSE JsonValue(j)

\* z.coerce.number().int().min(0).max(2).nullable().optional()
ZodFilter(j) == ~HasValue(j) \/ ZodEnum(j)

\* z.coerce.number().int().positive()
ZodId(id) == id > 0

\* the result of a direct call of a stored procedure: no HTTP response
Direct(r) ==
  [http |-> 0, code |-> "", error |-> r.error, number |-> r.number,
   task |-> r.task, recordset |-> r.recordset]

\* the request failed schema validation: next(error), and errorMiddleware
\* answers with the status and code of an error that carries neither
ZodFailure(tbl) ==
  [http |-> 500, code |-> "INTERNAL_SERVER_ERROR", error |-> "ZodError",
   number |-> 0, task |-> tbl, recordset |-> <<>>]

\* Respond answering an unexpected failure with the failure's own message
Respond_Leaking(r) ==
  IF r.error = "ok"
    THEN [http |-> 200, code |-> "", error |-> "ok", number |-> 0,
          task |-> r.task, recordset |-> r.recordset]
  ELSE IF r.number = ThrowNumber
    THEN [http |-> 400, code |-> "ERROR", error |-> r.error,
          number |-> r.number, task |-> r.task, recordset |-> <<>>]
  ELSE [http |-> 500, code |-> "INTERNAL_SERVER_ERROR", error |-> r.error,
        number |-> r.number, task |-> r.task, recordset |-> <<>>]

\* try { res.json(successResponse(data)) } catch: error number 51000 is
\* answered 400 with the procedure's message, anything else goes to
\* next(StatusGeneralError)
Respond(r) ==
  IF r.error = "ok"
    THEN [http |-> 200, code |-> "", error |-> "ok", number |-> 0,
          task |-> r.task, recordset |-> r.recordset]
  ELSE IF r.number = ThrowNumber
    THEN [http |-> 400, code |-> "ERROR", error |-> r.error,
          number |-> r.number, task |-> r.task, recordset |-> <<>>]
  ELSE [http |-> 500, code |-> "INTERNAL_SERVER_ERROR",
        error |-> "An unexpected error occurred", number |-> r.number,
        task |-> r.task, recordset |-> <<>>]

\* POST /task
postHandler(tbl, clock, q) ==
  IF ~( /\ ZodTitle(q.title)
        /\ ZodDescription(q.description)
        /\ ZodPriorityDefault(q.priority) )
    THEN ZodFailure(tbl)
  ELSE Respond(spTaskCreate(tbl, clock, credential.idAccount, credential.idUser,
                            Some(JsonValue(q.title)),
                            OrNullString(q.description),
                            OrNullDate(q.dueDate),
                            Some(PriorityOrDefault(q.priority))))

\* GET /task: the set of responses
getHandler(tbl, q) ==
  IF ~(ZodFilter(q.status) /\ ZodFilter(q.priority))
    THEN {ZodFailure(tbl)}
  ELSE {Respond(r) : r \in spTaskList(tbl, credential.idAccount,
                                      credential.idUser,
                                      OrNullNumber(q.status),
                                      OrNullNumber(q.priority))}

\* GET /task/:id
detailGetHandler(tbl, id) ==
  IF ~ZodId(id) THEN ZodFailure(tbl)
  ELSE Respond(spTaskGet(tbl, credential.idAccount, credential.idUser, id))

\* PUT /task/:id
putHandler(tbl, clock, id, q) ==
  IF ~( /\ ZodId(id)
        /\ ZodTitle(q.title)
        /\ ZodDescription(q.description)
        /\ ZodEnum(q.priority)
        /\ ZodEnum(q.status) )
    THEN ZodFailure(tbl)
  ELSE Respond(spTaskUpdate(tbl, clock, credential.idAccount, credential.idUser,
                            id, Some(JsonValue(q.title)),
                            OrNullString(q.description),
                            OrNullDate(q.dueDate),
                            Some(JsonValue(q.priority)),
                            Some(JsonValue(q.status))))

\* DELETE /task/:id
deleteHandler(tbl, clock, id) ==
  IF ~ZodId(id) THEN ZodFailure(tbl)
  ELSE Respond(spTaskDelete(tbl, clock, credential.idAccount,
                            credential.idUser, id))

(*************************** callers *************************************)
\* (idAccount, idUser) pairs a repository call is made with: three existing
\* scopes, a missing account, and a user that belongs to another account
CallerScopes == {<<1, 1>>, <<1, 2>>, <<2, 3>>, <<3, 1>>, <<1, 3>>}

\* the database sessions that run procedures at the same time
Sessions == 1..MaxSessions

\* the requests that ask for the connection pool at the same time
Callers == 1..MaxCallers

\* a session that runs no procedure
NoProc ==
  [op |-> "none", pc |-> "idle", idTask |-> 0, req |-> NoReq, error |-> "",
   recordset |-> <<>>, rows |-> 0, stamp |-> 0, checked |-> 0]

\* the sessions and the connection pool take no step
Quiet ==
  /\ UNCHANGED proc
  /\ UNCHANGED <<pool, driver, caller>>

\* the scopes that create tasks in the repository state machine
CreateScopes == {<<1, 1>>, <<2, 3>>, <<3, 1>>, <<1, 3>>}

\* the idTask values calls are made with; an id beyond the rows of the
\* table addresses no task
TaskIds == 1..MaxTasks

\* field values of the calls of the repository state machine
CreateInputs ==
  {Req(Some(<<" ", "a", "b", "c", " ">>), Null, Null, Some(1), Null),
   Req(Some(<<"a", "b", "d">>), Some(<<"d">>), Some(1), Some(1), Null),
   Req(Some(<<"a", "b">>), Null, Null, Some(1), Null),
   Req(Some(<<"a", "b", "c">>), Null, Null, Some(3), Null)}

UpdateInputs ==
  {Req(Some(<<" ", "x", "y", "z">>), Null, Null, Some(0), Some(1)),
   Req(Some(<<"a", "b", "c">>), Some(<<"d">>), Some(2), Some(1), Some(2)),
   Req(Some(<<"a", "b", "c">>), Null, Null, Some(1), Some(3)),
   Req(Some(<<"a", "b", "c">>), Null, Null, Some(-1), Some(1))}

\* (status, priority) filters of the List calls
ListFilters ==
  {<<Null, Null>>, <<Some(0), Null>>, <<Null, Some(1)>>, <<Some(1), Some(0)>>}

\* the record of a call: the procedure, its arguments, the clock when it
\* ran, and what it returned
Call(op, idAccount, idUser, idTask, req, clock, r) ==
  [op |-> op, idAccount |-> idAccount, idUser |-> idUser, idTask |-> idTask,
   req |-> req, at |-> clock, http |-> r.http, code |-> r.code,
   error |-> r.error, number |-> r.number, recordset |-> r.recordset]

(*************************** actions *************************************)
Idle == Call("none", 0, 0, 0, NoReq, 0, Direct(Ok(<<>>, <<>>)))

Init ==
  /\ task = <<>>
  /\ now = 0
  /\ last = Idle
  /\ prev = <<>>
  /\ proc = [s \in Sessions |-> NoProc]
  /\ pool = Null
  /\ driver = [connects |-> 0, failures |-> 0, pools |-> 0]
  /\ caller = [c \in Callers |-> [pc |-> "idle", pool |-> Null]]

\* GETUTCDATE() advances
Tick ==
  /\ now < MaxNow
  /\ now' = now + 1
  /\ UNCHANGED <<task, last, prev>>
  /\ Quiet

\* the caller has taken the result of its call; the next call can be made
Return ==
  /\ last # Idle
  /\ last' = Idle
  /\ prev' = task
  /\ UNCHANGED <<task, now>>
  /\ Quiet

\* a call runs on the table: task becomes the table it leaves, prev keeps
\* the table it found
Run(op, idAccount, idUser, idTask, req, r) ==
  /\ task' = r.task
  /\ prev' = task
  /\ last' = Call(op, idAccount, idUser, idTask, req, now, r)
  /\ UNCHANGED now
  /\ Quiet

TaskCreate ==
  /\ last = Idle
  /\ Len(task) < MaxTasks
  /\ \E c \in CreateScopes, q \in CreateInputs :
       Run("spTaskCreate", c[1], c[2], 0, q,
           Direct(spTaskCreate(task, now, c[1], c[2], q.title, q.description,
                               q.dueDate, q.priority)))

TaskUpdate ==
  /\ last = Idle
  /\ \E c \in CallerScopes, id \in TaskIds, q \in UpdateInputs :
       Run("spTaskUpdate", c[1], c[2], id, q,
           Direct(spTaskUpdate(task, now, c[1], c[2], id, q.title,
                               q.description, q.dueDate, q.priority, q.status)))

TaskGet ==
  /\ last = Idle
  /\ \E c \in CallerScopes, id \in TaskIds :
       Run("spTaskGet", c[1], c[2], id, NoReq,
           Direct(spTaskGet(task, c[1], c[2], id)))

TaskDelete ==
  /\ last = Idle
  /\ \E c \in CallerScopes, id \in TaskIds :
       Run("spTaskDelete", c[1], c[2], id, NoReq,
           Direct(spTaskDelete(task, now, c[1], c[2], id)))

TaskList ==
  /\ last = Idle
  /\ \E c \in CallerScopes, f \in ListFilters :
       \E r \in spTaskList(task, c[1], c[2], f[1], f[2]) :
          Run("spTaskList", c[1], c[2], 0, Req(Null, Null, Null, f[2], f[1]),
              Direct(r))

Next ==
  \/ Tick
  \/ Return
  \/ TaskCreate
  \/ TaskUpdate
  \/ TaskGet
  \/ TaskDelete
  \/ TaskList

Spec == Init /\ [][Next]_vars

(************* the repository state machine with engine faults ************)
\* field values of the calls whose transaction fails: valid ones, and a
\* priority that is not given
FaultInputs ==
  {Req(Some(<<"a", "b", "c">>), Null, Null, Some(2), Some(1)),
   Req(Some(<<"a", "b", "c">>), Null, Null, Null, Some(1))}

\* a Create whose INSERT fails
CreateFault ==
  /\ last = Idle
  /\ \E q \in FaultInputs :
       Run("spTaskCreate", credential.idAccount, credential.idUser, 0, q,
           Direct(EngineFault(spTaskCreate(task, now, credential.idAccount,
                                           credential.idUser, q.title,
                                           q.description, q.dueDate,
                                           q.priority), task)))

\* an Update whose UPDATE fails
UpdateFault ==
  /\ last = Idle
  /\ \E id \in TaskIds, q \in FaultInputs :
       Run("spTaskUpdate", credential.idAccount, credential.idUser, id, q,
           Direct(EngineFault(spTaskUpdate(task, now, credential.idAccount,
                                           credential.idUser, id, q.title,
                                           q.description, q.dueDate,
                                           q.priority, q.status), task)))

\* a Delete whose UPDATE fails
DeleteFault ==
  /\ last = Idle
  /\ \E id \in TaskIds :
       Run("spTaskDelete", credential.idAccount, credential.idUser, id, NoReq,
           Direct(EngineFault(spTaskDelete(task, now, credential.idAccount,
                                           credential.idUser, id), task)))

FaultNext ==
  \/ Tick
  \/ Return
  \/ TaskCreate
  \/ TaskUpdate
  \/ TaskDelete
  \/ CreateFault
  \/ UpdateFault
  \/ DeleteFault

FaultSpec == Init /\ [][FaultNext]_vars

(*********************** the HTTP state machine ***************************)
\* bodies of POST /task
PostBodies ==
  {Req(Json(<<"a", "b", "c">>), JsonNull, Undefined, Undefined, Undefined),
   Req(Json(<<"a", "b", "d">>), Json(<<"d">>), Json(1), Json(0), Undefined),
   Req(Json(<<"a", "b">>), JsonNull, Undefined, Json(1), Undefined)}

\* bodies of PUT /task/:id
PutBodies ==
  {Req(Json(<<"x", "y", "z">>), JsonNull, JsonNull, Json(1), Json(1)),
   Req(Json(<<"a", "b", "c">>), Json(<<"d">>), Json(2), Json(0), Json(2)),
   Req(Json(<<"a", "b", "c">>), JsonNull, Undefined, Json(1), Undefined)}

\* (status, priority) of the query string of GET /task
ListQueries ==
  {<<Undefined, Undefined>>, <<Json(0), Undefined>>, <<Json(1), Undefined>>,
   <<Undefined, Json(0)>>, <<Json(2), Json(1)>>, <<Json(3), Undefined>>}

\* the :id of the path
PathIds == 0..MaxTasks

\* a task of another user or another account is created
ForeignCreate ==
  /\ last = Idle
  /\ Len(task) < MaxTasks
  /\ \E c \in {<<1, 2>>, <<2, 3>>} :
       LET q == Req(Some(<<"a", "b", "c">>), Null, Null, Some(0), Null)
       IN  Run("spTaskCreate", c[1], c[2], 0, q,
               Direct(spTaskCreate(task, now, c[1], c[2], q.title,
                                   q.description, q.dueDate, q.priority)))

HttpPost ==
  /\ last = Idle
  /\ Len(task) < MaxTasks
  /\ \E q \in PostBodies :
       Run("postHandler", credential.idAccount, credential.idUser, 0, q,
           postHandler(task, now, q))

HttpList ==
  /\ last = Idle
  /\ \E f \in ListQueries :
       \E r \in getHandler(task, [status |-> f[1], priority |-> f[2]]) :
          Run("getHandler", credential.idAccount, credential.idUser, 0,
              Req(Undefined, Undefined, Undefined, f[2], f[1]), r)

HttpGet ==
  /\ last = Idle
  /\ \E id \in PathIds :
       Run("detailGetHandler", credential.idAccount, credential.idUser, id,
           NoReq, detailGetHandler(task, id))

HttpPut ==
  /\ last = Idle
  /\ \E id \in PathIds, q \in PutBodies :
       Run("putHandler", credential.idAccount, credential.idUser, id, q,
           putHandler(task, now, id, q))

HttpDelete ==
  /\ last = Idle
  /\ \E id \in PathIds :
       Run("deleteHandler", credential.idAccount, credential.idUser, id,
           NoReq, deleteHandler(task, now, id))

HttpNext ==
  \/ Tick
  \/ Return
  \/ ForeignCreate
  \/ HttpPost
  \/ HttpList
  \/ HttpGet
  \/ HttpPut
  \/ HttpDelete

HttpSpec == Init /\ [][HttpNext]_vars

(**************** the HTTP state machine with engine faults ***************)
\* a request whose procedure call is failed by the engine
PostFault ==
  /\ last = Idle
  /\ \E q \in PostBodies :
       /\ ZodTitle(q.title)
       /\ Run("postHandler", credential.idAccount, credential.idUser, 0, q,
              Respond(EngineFault(
                spTaskCreate(task, now, credential.idAccount, credential.idUser,
                             Some(JsonValue(q.title)),
                             OrNullString(q.description), OrNullDate(q.dueDate),
                             Some(PriorityOrDefault(q.priority))), task)))

PutFault ==
  /\ last = Idle
  /\ \E id \in TaskIds, q \in PutBodies :
       /\ ZodEnum(q.status)
       /\ Run("putHandler", credential.idAccount, credential.idUser, id, q,
              Respond(EngineFault(
                spTaskUpdate(task, now, credential.idAccount, credential.idUser,
                             id, Some(JsonValue(q.title)),
                             OrNullString(q.description), OrNullDate(q.dueDate),
                             Some(JsonValue(q.priority)),
                             Some(JsonValue(q.status))), task)))

GetFault ==
  /\ last = Idle
  /\ \E id \in TaskIds :
       Run("detailGetHandler", credential.idAccount, credential.idUser, id,
           NoReq,
           Respond(EngineFault(spTaskGet(task, credential.idAccount,
                                         credential.idUser, id), task)))

ListFault ==
  /\ last = Idle
  /\ \E r \in spTaskList(task, credential.idAccount, credential.idUser,
                         Null, Null) :
       Run("getHandler", credential.idAccount, credential.idUser, 0,
           Req(Undefined, Undefined, Undefined, Undefined, Undefined),
           Respond(EngineFault(r, task)))

DeleteHandlerFault ==
  /\ last = Idle
  /\ \E id \in TaskIds :
       Run("deleteHandler", credential.idAccount, credential.idUser, id,
           NoReq,
           Respond(EngineFault(spTaskDelete(task, now, credential.idAccount,
                                            credential.idUser, id), task)))

HttpFaultNext ==
  \/ Tick
  \/ Return
  \/ HttpPost
  \/ HttpList
  \/ HttpGet
  \/ HttpPut
  \/ HttpDelete
  \/ PostFault
  \/ PutFault
  \/ GetFault
  \/ ListFault
  \/ DeleteHandlerFault

HttpFaultSpec == Init /\ [][HttpFaultNext]_vars

(******************** the field-validation state machine ******************)
\* titles: missing, empty, blank, short, short between spaces, valid, one
\* letter after two tabs, of the longest length, one longer, two letters
\* after a hundred spaces, three letters before trailing spaces
Titles ==
  {<<>>, Rep(SPACE, 2), <<"a", "b">>, <<SPACE, "a", SPACE>>, <<"a", "b", "c">>,
   <<TAB, TAB, "a">>, Rep("a", TitleMaxLen), Rep("a", TitleMaxLen + 1),
   Rep(SPACE, TitleMaxLen) \o <<"a", "b">>,
   <<"a", "b", "c">> \o Rep(SPACE, TitleMaxLen - 2)}

Descriptions ==
  {Null, Some(<<"d">>), Some(Rep("d", DescMaxLen)),
   Some(Rep("d", DescMaxLen + 1))}

DueDates == {Null, Some(0), Some(1)}
Priorities == {Some(1), Some(3)}
Statuses == {Some(0), Some(3)}

\* an existing scope and a missing account
FieldScopes == {<<1, 1>>, <<3, 1>>}

\* every title alone, every title with three more faults, a valid title
\* with every combination of the other fields, and a priority and a status
\* below the range
FieldCreateInputs ==
  {Req(t, Null, Null, Some(1), Null) : t \in {Null} \cup {Some(x) : x \in Titles}}
  \cup {Req(Some(x), Some(Rep("d", DescMaxLen + 1)), Some(0), Some(3), Null) :
          x \in Titles}
  \cup {Req(Some(<<"a", "b", "c">>), d, u, p, Null) :
          d \in Descriptions, u \in DueDates, p \in Priorities}
  \cup {Req(Some(<<"a", "b", "c">>), Null, Null, Some(-1), Null)}

FieldUpdateInputs ==
  {Req(t, Null, Null, Some(1), Some(1)) :
     t \in {Null} \cup {Some(x) : x \in Titles}}
  \cup {Req(Some(x), Some(Rep("d", DescMaxLen + 1)), Some(0), Some(3), Some(3)) :
          x \in Titles}
  \cup {Req(Some(<<"a", "b", "c">>), d, u, p, st) :
          d \in Descriptions, u \in DueDates, p \in Priorities,
          st \in Statuses}
  \cup {Req(Some(<<"a", "b", "c">>), Null, Null, Some(-1), Some(1)),
        Req(Some(<<"a", "b", "c">>), Null, Null, Some(2), Some(-1))}

\* request bodies: every title with a null description, and a valid title
\* with every description, due date and priority a body can carry
FieldPostBodies ==
  {Req(t, JsonNull, Undefined, Undefined, Undefined) :
     t \in {Undefined, JsonNull} \cup {Json(x) : x \in Titles}}
  \cup {Req(Json(<<"a", "b", "c">>), d, u, p, Undefined) :
          d \in {Undefined, Json(<<>>), Json(<<"d">>),
                 Json(Rep("d", DescMaxLen + 1))},
          u \in {Undefined, Json(0)},
          p \in {Undefined, Json(3)}}

FieldPutBodies ==
  {Req(t, JsonNull, Undefined, Json(1), Json(1)) :
     t \in {Undefined, JsonNull} \cup {Json(x) : x \in Titles}}
  \cup {Req(Json(<<"a", "b", "c">>), d, u, p, st) :
          d \in {Undefined, Json(<<"d">>), Json(Rep("d", DescMaxLen + 1))},
          u \in {JsonNull, Json(0)},
          p \in {Json(0), Json(3)},
          st \in {Json(2), Json(3)}}

\* the clock has any value when the first request arrives
FieldInit ==
  /\ task = <<>>
  /\ now \in 0..MaxNow
  /\ last = Idle
  /\ prev = <<>>
  /\ proc = [s \in Sessions |-> NoProc]
  /\ pool = Null
  /\ driver = [connects |-> 0, failures |-> 0, pools |-> 0]
  /\ caller = [c \in Callers |-> [pc |-> "idle", pool |-> Null]]

FieldCreate ==
  /\ last = Idle
  /\ Len(task) < MaxFieldTasks
  /\ \E c \in FieldScopes, q \in FieldCreateInputs :
       Run("spTaskCreate", c[1], c[2], 0, q,
           Direct(spTaskCreate(task, now, c[1], c[2], q.title, q.description,
                               q.dueDate, q.priority)))

FieldUpdate ==
  /\ last = Idle
  /\ \E c \in FieldScopes, id \in 1..(MaxFieldTasks + 1),
        q \in FieldUpdateInputs :
       Run("spTaskUpdate", c[1], c[2], id, q,
           Direct(spTaskUpdate(task, now, c[1], c[2], id, q.title,
                               q.description, q.dueDate, q.priority, q.status)))

FieldPost ==
  /\ last = Idle
  /\ Len(task) < MaxFieldTasks
  /\ \E q \in FieldPostBodies :
       Run("postHandler", credential.idAccount, credential.idUser, 0, q,
           postHandler(task, now, q))

FieldPut ==
  /\ last = Idle
  /\ \E id \in 1..(MaxFieldTasks + 1), q \in FieldPutBodies :
       Run("putHandler", credential.idAccount, credential.idUser, id, q,
           putHandler(task, now, id, q))

FieldNext ==
  \/ Tick
  \/ Return
  \/ FieldCreate
  \/ FieldUpdate
  \/ FieldPost
  \/ FieldPut

ValidationSpec == FieldInit /\ [][FieldNext]_vars

(******************** requests as the router hands them over **************)
\* A value of req.params, req.body or req.query: a key that is not there,
\* the JSON null, a number, a string of characters, a string that spells a
\* number ("2", as path segments and query values do), a string that holds
\* an ISO-8601 date-time (val is its day) and a string that holds a
\* calendar date as <input type="date"> gives it (val is its day).
JUndefined == [kind |-> "undefined", val |-> 0]
JNull == [kind |-> "null", val |-> 0]
JNumber(n) == [kind |-> "number", val |-> n]
JString(s) == [kind |-> "string", val |-> s]
JNumeral(n) == [kind |-> "numeral", val |-> n]
JDateTime(d) == [kind |-> "datetime", val |-> d]
JDate(d) == [kind |-> "date", val |-> d]

\* the keys requests carry
Keys ==
  {"id", "title", "description", "dueDate", "priority", "status",
   "idAccount", "idUser"}

\* an object without keys
NoKeys == [k \in Keys |-> JUndefined]

\* { ...req.params, ...req.body, ...req.query }: a key of the query string
\* replaces the same key of the body, which replaces that of the path
Merge(req) ==
  [k \in Keys |->
     IF req.query[k] # JUndefined THEN req.query[k]
     ELSE IF req.body[k] # JUndefined THEN req.body[k]
     ELSE req.params[k]]

\* Number(x) of z.coerce.number(): Null stands for NaN
ToNumber(j) ==
  IF j.kind \in {"number", "numeral"} THEN Some(j.val)
  ELSE IF j.kind = "null" THEN Some(0)
  ELSE IF j.kind = "string" /\ j.val = <<>> THEN Some(0)
  ELSE Null

\* the value as the handlers' field checks take it
Untag(j) ==
  IF j.kind = "undefined" THEN Undefined
  ELSE IF j.kind = "null" THEN JsonNull
  ELSE Json(j.val)

\* z.string().datetime().nullable().optional()
ZodDateTime(j) == j.kind \in {"undefined", "null", "datetime"}

\* z.coerce.number()...nullable().optional(): the value after coercion,
\* Null when the coercion gives NaN
CoerceFilter(j) ==
  IF j.kind \in {"undefined", "null"} THEN Some(Untag(j))
  ELSE IF ToNumber(j) = Null THEN Null
  ELSE Some(Json(Val(ToNumber(j))))

\* schema.parseAsync(params) of the five handlers; keys the schema does not
\* name are stripped
Parse(schema, p) ==
  IF schema = "bodySchema"
    THEN [ok |-> /\ p.title.kind = "string"
                 /\ p.description.kind \in {"null", "string"}
                 /\ ZodDateTime(p.dueDate)
                 /\ p.priority.kind \in {"undefined", "number"}
                 /\ ZodTitle(Untag(p.title))
                 /\ ZodDescription(Untag(p.description))
                 /\ ZodPriorityDefault(Untag(p.priority)),
          id |-> 0,
          q |-> Req(Untag(p.title), Untag(p.description), Untag(p.dueDate),
                    Untag(p.priority), Untag(p.status))]
  ELSE IF schema = "querySchema"
    THEN [ok |-> /\ CoerceFilter(p.status) # Null
                 /\ CoerceFilter(p.priority) # Null
                 /\ ZodFilter(Val(CoerceFilter(p.status)))
                 /\ ZodFilter(Val(CoerceFilter(p.priority))),
          id |-> 0,
          q |-> Req(Undefined, Undefined, Undefined,
                    IF CoerceFilter(p.priority) = Null THEN Undefined
                    ELSE Val(CoerceFilter(p.priority)),
                    IF CoerceFilter(p.status) = Null THEN Undefined
                    ELSE Val(CoerceFilter(p.status)))]
  ELSE IF schema = "putSchema"
    THEN [ok |-> /\ ToNumber(p.id) # Null
                 /\ ZodId(Val(ToNumber(p.id)))
                 /\ p.title.kind = "string"
                 /\ p.description.kind \in {"null", "string"}
                 /\ ZodDateTime(p.dueDate)
                 /\ p.priority.kind = "number"
                 /\ p.status.kind = "number"
                 /\ ZodTitle(Untag(p.title))
                 /\ ZodDescription(Untag(p.description))
                 /\ ZodEnum(Untag(p.priority))
                 /\ ZodEnum(Untag(p.status)),
          id |-> IF ToNumber(p.id) = Null THEN 0 ELSE Val(ToNumber(p.id)),
          q |-> Req(Untag(p.title), Untag(p.description), Untag(p.dueDate),
                    Untag(p.priority), Untag(p.status))]
  ELSE [ok |-> ToNumber(p.id) # Null /\ ZodId(Val(ToNumber(p.id))),
        id |-> IF ToNumber(p.id) = Null THEN 0 ELSE Val(ToNumber(p.id)),
        q |-> NoReq]

\* validateRequest taking the credential from the request where the
\* request names one
validateRequest_FromRequest(req, schema) ==
  LET params == Merge(req)
      validated == Parse(schema, params)
  IN [ok |-> validated.ok,
      credential |->
        [idAccount |-> IF params.idAccount.kind = "number"
                         THEN params.idAccount.val ELSE credential.idAccount,
         idUser |-> IF params.idUser.kind = "number"
                      THEN params.idUser.val ELSE credential.idUser],
      params |-> validated]

\* CrudController.validateRequest: [{credential, params: validated}, null]
\* when ok, [null, error] when not
validateRequest(req, schema) ==
  LET params == Merge(req)
      validated == Parse(schema, params)
  IN [ok |-> validated.ok, credential |-> credential, params |-> validated]

\* what a handler hands to the repository, and its answer
Handled(idAccount, idUser, idTask, r) ==
  [idAccount |-> idAccount, idUser |-> idUser, idTask |-> idTask, r |-> r]

\* the request did not pass its schema: nothing is handed to the repository
NotHandled(tbl) == Handled(0, 0, 0, ZodFailure(tbl))

\* router.post('/task', taskController.postHandler)
postRequest(tbl, clock, req) ==
  LET validated == validateRequest(req, "bodySchema")
      q == validated.params.q
  IN IF ~validated.ok THEN NotHandled(tbl)
     ELSE Handled(validated.credential.idAccount, validated.credential.idUser,
                  0,
                  Respond(spTaskCreate(tbl, clock,
                                       validated.credential.idAccount,
                                       validated.credential.idUser,
                                       Some(JsonValue(q.title)),
                                       OrNullString(q.description),
                                       OrNullDate(q.dueDate),
                                       Some(PriorityOrDefault(q.priority)))))

\* router.get('/task', taskController.getHandler): the set of outcomes
listRequest(tbl, req) ==
  LET validated == validateRequest(req, "querySchema")
      q == validated.params.q
  IN IF ~validated.ok THEN {NotHandled(tbl)}
     ELSE {Handled(validated.credential.idAccount,
                   validated.credential.idUser, 0, Respond(r)) :
             r \in spTaskList(tbl, validated.credential.idAccount,
                              validated.credential.idUser,
                              OrNullNumber(q.status),
                              OrNullNumber(q.priority))}

\* router.get('/task/:id', taskDetailController.getHandler)
getRequest(tbl, req) ==
  LET validated == validateRequest(req, "paramsSchema")
  IN IF ~validated.ok THEN NotHandled(tbl)
     ELSE Handled(validated.credential.idAccount, validated.credential.idUser,
                  validated.params.id,
                  Respond(spTaskGet(tbl, validated.credential.idAccount,
                                    validated.credential.idUser,
                                    validated.params.id)))

\* router.put('/task/:id', taskDetailController.putHandler)
putRequest(tbl, clock, req) ==
  LET validated == validateRequest(req, "putSchema")
      q == validated.params.q
  IN IF ~validated.ok THEN NotHandled(tbl)
     ELSE Handled(validated.credential.idAccount, validated.credential.idUser,
                  validated.params.id,
                  Respond(spTaskUpdate(tbl, clock,
                                       validated.credential.idAccount,
                                       validated.credential.idUser,
                                       validated.params.id,
                                       Some(JsonValue(q.title)),
                                       OrNullString(q.description),
                                       OrNullDate(q.dueDate),
                                       Some(JsonValue(q.priority)),
                                       Some(JsonValue(q.status)))))

\* router.delete('/task/:id', taskDetailController.deleteHandler)
deleteRequest(tbl, clock, req) ==
  LET validated == validateRequest(req, "paramsSchema")
  IN IF ~validated.ok THEN NotHandled(tbl)
     ELSE Handled(validated.credential.idAccount, validated.credential.idUser,
                  validated.params.id,
                  Respond(spTaskDelete(tbl, clock,
                                       validated.credential.idAccount,
                                       validated.credential.idUser,
                                       validated.params.id)))

(******************* the state machine of routed requests *****************)
\* the object with the keys and values of the pairs
Obj(pairs) ==
  [k \in Keys |->
     IF \E p \in pairs : p[1] = k
       THEN (CHOOSE p \in pairs : p[1] = k)[2]
       ELSE JUndefined]

\* a request of the router: path parameters, JSON body, query string
Request(params, body, query) ==
  [params |-> params, body |-> body, query |-> query]

\* keys a client may add to a body: none, the id of another task, the
\* account and user of another tenant
ExtraKeys ==
  {{}, {<<"id", JNumber(2)>>},
   {<<"idAccount", JNumber(2)>>, <<"idUser", JNumber(3)>>}}

\* query strings: none, and the id of a task
IdQueries == {NoKeys, Obj({<<"id", JNumeral(1)>>})}

\* POST /task
PostRequests ==
  {Request(NoKeys,
           Obj({<<"title", JString(<<"a", "b", "c">>)>>,
                <<"description", JNull>>} \cup x),
           NoKeys) : x \in ExtraKeys}
  \cup {Request(NoKeys,
                Obj({<<"title", JString(<<"a", "b", "d">>)>>,
                     <<"description", JString(<<"d">>)>>,
                     <<"dueDate", JDateTime(1)>>,
                     <<"priority", JNumber(0)>>}),
                Obj({<<"idAccount", JNumeral(2)>>})),
        Request(NoKeys,
                Obj({<<"title", JString(<<"a", "b">>)>>,
                     <<"description", JNull>>}),
                NoKeys)}

\* GET /task
ListRequests ==
  {Request(NoKeys, NoKeys, Obj({<<"status", s>>, <<"priority", p>>} \cup x)) :
     s \in {JUndefined, JNumeral(1), JNumeral(3), JString(<<"x">>)},
     p \in {JUndefined, JNumeral(2)},
     x \in {{}, {<<"idUser", JNumeral(2)>>}}}

\* GET /task/:id and DELETE /task/:id
DetailRequests ==
  {Request(Obj({<<"id", JNumeral(i)>>}), Obj(x), y) :
     i \in PathIds, x \in ExtraKeys, y \in IdQueries}

\* PUT /task/:id
PutRequests ==
  {Request(Obj({<<"id", JNumeral(i)>>}),
           Obj({<<"title", JString(<<"x", "y", "z">>)>>,
                <<"description", JNull>>,
                <<"priority", JNumber(2)>>,
                <<"status", JNumber(1)>>} \cup x),
           y) : i \in PathIds, x \in ExtraKeys, y \in IdQueries}
  \cup {Request(Obj({<<"id", JNumeral(1)>>}),
                Obj({<<"title", JString(<<"x", "y", "z">>)>>,
                     <<"description", JNull>>,
                     <<"priority", JNumber(2)>>}),
                NoKeys)}

\* the handler's outcome p becomes the last call
Route(op, req, p) == Run(op, p.idAccount, p.idUser, p.idTask, req, p.r)

RoutePost ==
  /\ last = Idle
  /\ Len(task) < MaxTasks
  /\ \E req \in PostRequests :
       Route("POST /task", req, postRequest(task, now, req))

RouteList ==
  /\ last = Idle
  /\ \E req \in ListRequests :
       \E p \in listRequest(task, req) : Route("GET /task", req, p)

RouteGet ==
  /\ last = Idle
  /\ \E req \in DetailRequests :
       Route("GET /task/:id", req, getRequest(task, req))

RoutePut ==
  /\ last = Idle
  /\ \E req \in PutRequests :
       Route("PUT /task/:id", req, putRequest(task, now, req))

RouteDelete ==
  /\ last = Idle
  /\ \E req \in DetailRequests :
       Route("DELETE /task/:id", req, deleteRequest(task, now, req))

RequestNext ==
  \/ Tick
  \/ Return
  \/ ForeignCreate
  \/ RoutePost
  \/ RouteList
  \/ RouteGet
  \/ RoutePut
  \/ RouteDelete

RequestSpec == Init /\ [][RequestNext]_vars

(************************* the task creation form *************************)
FormTitleMin == 3
FormTitleMax == 100
FormDescMax == 1000

\* String.prototype.trim(): the white space of both ends is removed
trim(s) ==
  LET leading == {i \in 1..Len(s) : \A j \in 1..i : s[j] \in {SPACE, TAB}}
      trailing == {i \in 1..Len(s) : \A j \in i..Len(s) : s[j] \in {SPACE, TAB}}
  IN IF Cardinality(leading) = Len(s) THEN <<>>
     ELSE SubSeq(s, Cardinality(leading) + 1, Len(s) - Cardinality(trailing))

\* z.enum(['baixa', 'media', 'alta'])
TaskPriority ==
  {<<"b", "a", "i", "x", "a">>, <<"m", "e", "d", "i", "a">>,
   <<"a", "l", "t", "a">>}

\* !date of JavaScript: undefined, null and the empty string
Falsy(j) ==
  j.kind \in {"undefined", "null"} \/ (j.kind = "string" /\ j.val = <<>>)

\* the refinement of dueDate: no date, or new Date(date) >= today; a string
\* that is no date gives Invalid Date, which compares false
DueDateRefine(j, clock) ==
  \/ Falsy(j)
  \/ j.kind \in {"date", "datetime"} /\ j.val >= CastAsDate(clock)

\* taskCreateFormSchema.parse(values): ok, and the parsed data
taskCreateFormSchema(values, clock) ==
  LET title == IF values.title.kind = "string" THEN trim(values.title.val)
               ELSE <<>>
  IN [ok |-> /\ values.title.kind = "string"
             /\ Len(title) >= FormTitleMin
             /\ Len(title) <= FormTitleMax
             /\ values.description.kind \in {"undefined", "string"}
             /\ values.description.kind = "string"
                  => Len(values.description.val) <= FormDescMax
             /\ values.dueDate.kind \in
                  {"undefined", "null", "string", "date", "datetime"}
             /\ DueDateRefine(values.dueDate, clock)
             /\ values.priority.kind = "string"
             /\ values.priority.val \in TaskPriority,
      data |-> [values EXCEPT !.title = JString(title)]]

\* const payload = { ...data, dueDate: data.dueDate ?
\*   new Date(data.dueDate).toISOString() : null }
onSubmit(data) ==
  [data EXCEPT !.dueDate = IF Falsy(data.dueDate) THEN JNull
                           ELSE JDateTime(data.dueDate.val)]

\* what the fields of the form can hold when it is submitted
FormValues ==
  {Obj({<<"title", JString(t)>>, <<"description", d>>, <<"dueDate", u>>,
        <<"priority", JString(p)>>}) :
     t \in {<<>>, <<"a", "b">>, <<"a", "b", "c">>,
            <<SPACE, "a", "b", "c", TAB>>},
     d \in {JUndefined, JString(<<>>), JString(<<"d">>)},
     u \in {JNull, JString(<<>>), JDate(0), JDate(1)},
     p \in TaskPriority \cup {<<"x">>}}

\* handleSubmit(onSubmit): the values pass the resolver, and the payload is
\* posted as the body of POST /task
FormSubmit ==
  /\ last = Idle
  /\ Len(task) < MaxTasks
  /\ \E values \in FormValues :
       LET parsed == taskCreateFormSchema(values, now)
           req == Request(NoKeys, onSubmit(parsed.data), NoKeys)
       IN /\ parsed.ok
          /\ Route("TaskForm.onSubmit", req, postRequest(task, now, req))

FormNext ==
  \/ Tick
  \/ Return
  \/ RoutePost
  \/ FormSubmit

FormSpec == Init /\ [][FormNext]_vars

(****************** the state machine of the connection pool **************)
\* Each caller is one dbRequest.  JavaScript runs a function without
\* interruption up to its next await, so a step is the code between two
\* awaits.  sql.connect belongs to the driver: a call of it that resolves
\* gives a pool the driver made before or a new one, and a call may reject.

\* const pool = await getPool(): if (!pool) is tested and, when no pool is
\* set, sql.connect is called and awaited; otherwise the pool is returned
GetPool(c) ==
  /\ caller[c].pc = "idle"
  /\ IF pool = Null
       THEN /\ driver' = [driver EXCEPT !.connects = @ + 1]
            /\ caller' = [caller EXCEPT ![c].pc = "connecting"]
       ELSE /\ caller' = [caller EXCEPT ![c] = [pc |-> "request", pool |-> pool]]
            /\ UNCHANGED driver
  /\ UNCHANGED <<task, now, last, prev, proc, pool>>

\* sql.connect resolves: pool = <the pool>; return pool
ConnectResolve(c) ==
  /\ caller[c].pc = "connecting"
  /\ \E p \in 1..(driver.pools + 1) :
       /\ pool' = Some(p)
       /\ driver' = [driver EXCEPT !.pools = IF p > @ THEN p ELSE @]
       /\ caller' = [caller EXCEPT ![c] = [pc |-> "request", pool |-> Some(p)]]
  /\ UNCHANGED <<task, now, last, prev, proc>>

\* sql.connect rejects: the await throws, pool is not assigned, and the
\* error leaves dbRequest
ConnectReject(c) ==
  /\ caller[c].pc = "connecting"
  /\ driver' = [driver EXCEPT !.failures = @ + 1]
  /\ caller' = [caller EXCEPT ![c].pc = "failed"]
  /\ UNCHANGED <<task, now, last, prev, proc, pool>>

\* pool.request() ... await request.execute(procedure)
Execute(c) ==
  /\ caller[c].pc = "request"
  /\ caller' = [caller EXCEPT ![c].pc = "done"]
  /\ UNCHANGED <<task, now, last, prev, proc, pool, driver>>

PoolNext ==
  \/ \E c \in Callers : GetPool(c)
  \/ \E c \in Callers : ConnectResolve(c)
  \/ \E c \in Callers : ConnectReject(c)
  \/ \E c \in Callers : Execute(c)

PoolSpec == Init /\ [][PoolNext]_vars

(****************** the state machine of concurrent calls *****************)
\* Each session is one call of a procedure by the hardcoded credential, run
\* in the steps the engine can interleave with the steps of other sessions:
\* the IF ... THROW chain on the parameters, the IF NOT EXISTS check (a
\* statement of its own, before BEGIN TRAN), and the transaction.  The
\* transaction holds the exclusive lock of the row from its UPDATE to its
\* COMMIT, so no other session reads or writes the row in between: it is
\* one step.  Sessions are numbered in the order they begin.
\* field values of the concurrent calls: two valid vectors that differ in
\* every field, and a title that is too short
SessionInputs ==
  {Req(Some(<<"a", "b", "c">>), Null, Null, Some(2), Some(1)),
   Req(Some(<<"x", "y", "z">>), Some(<<"d">>), Some(1), Some(0), Some(2)),
   Req(Some(<<"a", "b">>), Null, Null, Some(1), Some(0))}

\* the number of transactions committed so far
Committed(pr) == Cardinality({t \in Sessions : pr[t].stamp > 0})

\* the first IF of the procedure that throws, "ok" when none does
SessionGuard(op, q, clock) ==
  LET title == NVarCharParam(q.title, TitleParamLen)
      description == NVarCharParam(q.description, DescParamLen)
      fields == IF op = "spTaskDelete" THEN "ok"
                ELSE ValidateFields(title, description, q.dueDate, q.priority,
                                    clock)
      st == IF op = "spTaskUpdate" THEN ValidateStatus(q.status) ELSE "ok"
      tenancy == IF op = "spTaskUpdate" THEN "ok"
                 ELSE TenancyGuard(credential.idAccount, credential.idUser)
  IN IF fields # "ok" THEN fields
     ELSE IF st # "ok" THEN st
     ELSE tenancy

\* a call arrives and runs its parameter and tenancy checks
SessionBegin(s) ==
  /\ proc[s].pc = "idle"
  /\ s > 1 => proc[s - 1].pc # "idle"
  /\ \E op \in {"spTaskCreate", "spTaskUpdate", "spTaskDelete"},
        id \in TaskIds, q \in SessionInputs :
       /\ op = "spTaskCreate"
            => /\ id = 1
               /\ Len(task) + Cardinality({t \in Sessions :
                                             /\ proc[t].op = "spTaskCreate"
                                             /\ proc[t].pc = "tran"}) < MaxTasks
       /\ op = "spTaskDelete" => q.status = Some(1)
       /\ LET guard == SessionGuard(op, q, now)
          IN proc' = [proc EXCEPT ![s] =
               [NoProc EXCEPT
                  !.op = op,
                  !.idTask = IF op = "spTaskCreate" THEN 0 ELSE id,
                  !.req = IF op = "spTaskDelete" THEN NoReq ELSE q,
                  !.pc = IF guard # "ok" THEN "done"
                         ELSE IF op = "spTaskCreate" THEN "tran"
                         ELSE "exists",
                  !.error = IF guard # "ok" THEN guard ELSE ""]]
  /\ UNCHANGED <<task, now, last, prev, pool, driver, caller>>

\* IF NOT EXISTS (SELECT * FROM task WHERE ...) THROW 51000, 'taskDoesntExist'
SessionExists(s) ==
  /\ proc[s].pc = "exists"
  /\ proc' = [proc EXCEPT ![s] =
       IF TaskExists(task, credential.idAccount, credential.idUser,
                     proc[s].idTask)
         THEN [@ EXCEPT !.pc = "tran", !.checked = Committed(proc) + 1]
         ELSE [@ EXCEPT !.pc = "done", !.error = "taskDoesntExist",
                        !.checked = Committed(proc) + 1]]
  /\ UNCHANGED <<task, now, last, prev, pool, driver, caller>>

\* the rows the UPDATE statement of session s matches
SessionRows(s) ==
  {i \in 1..Len(task) : TaskMatch(task[i], credential.idAccount,
                                  credential.idUser, proc[s].idTask)}

\* the table after the statement of the transaction of session s
SessionWrite(s) ==
  LET q == proc[s].req
      title == NVarCharParam(q.title, TitleParamLen)
      description == NVarCharParam(q.description, DescParamLen)
  IN IF proc[s].op = "spTaskCreate"
       THEN Append(task, InsertedRow(task, now, credential.idAccount,
                                     credential.idUser, title, description,
                                     q.dueDate, q.priority))
     ELSE [i \in 1..Len(task) |->
             IF i \notin SessionRows(s) THEN task[i]
             ELSE IF proc[s].op = "spTaskUpdate"
               THEN UpdatedRow(task[i], now, title, description, q.dueDate,
                               q.priority, q.status)
             ELSE DeletedRow(task[i], now)]

\* BEGIN TRAN; INSERT or UPDATE; SELECT idTask; COMMIT TRAN
SessionTran(s) ==
  /\ proc[s].pc = "tran"
  /\ task' = SessionWrite(s)
  /\ proc' = [proc EXCEPT ![s] =
       [@ EXCEPT !.pc = "done",
                 !.error = "ok",
                 !.rows = IF proc[s].op = "spTaskCreate" THEN 1
                          ELSE Cardinality(SessionRows(s)),
                 !.recordset = IF proc[s].op = "spTaskCreate"
                                 THEN <<[idTask |-> NextIdentity(task)]>>
                                 ELSE <<[idTask |-> proc[s].idTask]>>,
                 !.stamp = Committed(proc) + 1]]
  /\ UNCHANGED <<now, last, prev, pool, driver, caller>>

ConcurrentNext ==
  \/ Tick
  \/ \E s \in Sessions : SessionBegin(s)
  \/ \E s \in Sessions : SessionExists(s)
  \/ \E s \in Sessions : SessionTran(s)

ConcurrentSpec == Init /\ [][ConcurrentNext]_vars

(***************************************************************************)
(*                      Properties of the repository                       *)
(* In a state where last is a call, prev is the table the call found and   *)
(* task the table it left.                                                 *)
(***************************************************************************)
ValidationErrors ==
  {"titleRequired", "titleTooShort", "titleTooLong", "descriptionTooLong",
   "dueDateInPast", "invalidPriority", "invalidStatus"}

\* the caller of the call recorded in c is an existing (account, user) scope
ExistingScope(c) ==
  /\ \E acc \in account : acc.idAccount = c.idAccount
  /\ \E usr \in user : usr.idUser = c.idUser /\ usr.idAccount = c.idAccount

Owns(c, row) == row.idAccount = c.idAccount /\ row.idUser = c.idUser

\* C1: cross-tenant isolation.  A Get, Update or Delete made by an existing
\* scope with the idTask of a task owned by another scope fails with
\* taskDoesntExist (an Update whose field values are invalid fails with the
\* validation error that precedes the existence check), returns no record
\* and leaves every row of the table as it was.
C1_CrossTenantIsolation ==
  \A i \in 1..Len(prev) :
    ( /\ last.op \in {"spTaskGet", "spTaskUpdate", "spTaskDelete"}
      /\ last.idTask = prev[i].idTask
      /\ ExistingScope(last)
      /\ ~Owns(last, prev[i]) )
    => /\ \/ last.error = "taskDoesntExist"
          \/ last.op = "spTaskUpdate" /\ last.error \in ValidationErrors
       /\ last.recordset = <<>>
       /\ task = prev

\* a Delete of another user's task in the same account has been refused
C1_Witness ==
  /\ last.op = "spTaskDelete"
  /\ last.error = "taskDoesntExist"
  /\ ExistingScope(last)
  /\ \E i \in 1..Len(prev) :
       /\ prev[i].idTask = last.idTask
       /\ ~prev[i].deleted
       /\ ~Owns(last, prev[i])
       /\ prev[i].idAccount = last.idAccount

\* C2: a task whose deleted flag is set is logically nonexistent.  No Get or
\* List returns it; a Get, Update or Delete addressed to it fails, with
\* taskDoesntExist when made by an existing scope with valid field values;
\* and its row stays in the table, unchanged.
C2_DeletedIsInvisible ==
  \A i \in 1..Len(prev) :
    (prev[i].deleted /\ last # Idle)
    => /\ \A k \in 1..Len(last.recordset) :
            last.op \in {"spTaskGet", "spTaskList"}
            => last.recordset[k].idTask # prev[i].idTask
       /\ ( /\ last.op \in {"spTaskGet", "spTaskUpdate", "spTaskDelete"}
            /\ last.idTask = prev[i].idTask )
          => /\ last.error # "ok"
             /\ ExistingScope(last)
                => \/ last.error = "taskDoesntExist"
                   \/ /\ last.op = "spTaskUpdate"
                      /\ last.error \in ValidationErrors
       /\ Len(task) >= Len(prev)
       /\ task[i] = prev[i]

\* the owner of a deleted task asked for it and was refused
C2_Witness ==
  /\ last.op = "spTaskGet"
  /\ last.error = "taskDoesntExist"
  /\ \E i \in 1..Len(prev) :
       /\ prev[i].idTask = last.idTask
       /\ prev[i].deleted
       /\ Owns(last, prev[i])

\* C3: Delete is not idempotent.  A Delete of an existing, non-deleted task
\* by its owner succeeds, returns the idTask and sets the deleted flag; a
\* Delete with the same (account, user, idTask) made once the flag is set
\* fails with taskDoesntExist.
C3_DeleteNotIdempotent ==
  \A i \in 1..Len(prev) :
    ( /\ last.op = "spTaskDelete"
      /\ last.idTask = prev[i].idTask
      /\ Owns(last, prev[i]) )
    => IF prev[i].deleted
         THEN last.error = "taskDoesntExist" /\ task = prev
         ELSE /\ last.error = "ok"
              /\ last.recordset = <<[idTask |-> prev[i].idTask]>>
              /\ task[i].deleted

\* the second Delete of the same task by its owner has been refused
C3_Witness ==
  /\ last.op = "spTaskDelete"
  /\ last.error = "taskDoesntExist"
  /\ \E i \in 1..Len(prev) :
       /\ prev[i].idTask = last.idTask
       /\ prev[i].deleted
       /\ Owns(last, prev[i])

\* leading and trailing spaces removed, one character at a time
RECURSIVE Strip(_)
Strip(s) ==
  IF s = <<>> THEN s
  ELSE IF Head(s) = SPACE THEN Strip(Tail(s))
  ELSE IF s[Len(s)] = SPACE THEN Strip(SubSeq(s, 1, Len(s) - 1))
  ELSE s

C5_UpdateFrame ==
  last.op = "spTaskUpdate"
  => /\ Len(task) = Len(prev)
     /\ \A i \in 1..Len(prev) :
          /\ task[i].idTask = prev[i].idTask
          /\ task[i].idAccount = prev[i].idAccount
          /\ task[i].idUser = prev[i].idUser
          /\ task[i].dateCreated = prev[i].dateCreated
          /\ task[i].deleted = prev[i].deleted
          /\ prev[i].idTask # last.idTask => task[i] = prev[i]

\* an Update has changed one of two rows
C5_Witness ==
  /\ last.op = "spTaskUpdate"
  /\ last.error = "ok"
  /\ Len(task) >= 2
  /\ \E i \in 1..Len(task) :
       task[i].idTask = last.idTask /\ task[i] # prev[i]

\* the order the List contract states: priority descending, then due date
\* ascending with a missing due date after every date, then creation time
\* descending; r1 sorts strictly before r2
ContractBefore(r1, r2) ==
  \/ r1.priority > r2.priority
  \/ /\ r1.priority = r2.priority
     /\ \/ r1.dueDate # Null /\ r2.dueDate = Null
        \/ r1.dueDate # Null /\ r2.dueDate # Null
             /\ Val(r1.dueDate) < Val(r2.dueDate)
  \/ /\ r1.priority = r2.priority
     /\ r1.dueDate = r2.dueDate
     /\ r1.dateCreated > r2.dateCreated

\* C7: List returns its tasks by priority descending, then due date
\* ascending with the tasks that have no due date after all that have one,
\* then creation time descending.
C7_ListOrderNullsLast ==
  (last.op = "spTaskList" /\ last.error = "ok")
  => \A i, j \in 1..Len(last.recordset) :
       i < j => ~ContractBefore(last.recordset[j], last.recordset[i])

(***************************************************************************)
(*                       Properties of GET /task                           *)
(***************************************************************************)
\* the filter of a query string is one GET /task accepts
FilterAccepted(j) == ~HasValue(j) \/ JsonValue(j) \in {0, 1, 2}

\* the row passes the filter: an omitted filter imposes no restriction
FilterPasses(j, v) == HasValue(j) => v = JsonValue(j)

\* C6: GET /task with a status filter s in {0,1,2} and/or a priority filter
\* p in {0,1,2} answers with exactly the non-deleted tasks of the caller's
\* (account, user) whose status is s and whose priority is p; an omitted
\* filter imposes no restriction, and no task of another account or user is
\* returned.
C6_ListFiltersExact ==
  ( /\ last.op = "getHandler"
    /\ FilterAccepted(last.req.status)
    /\ FilterAccepted(last.req.priority) )
  => /\ last.http = 200
     /\ {last.recordset[k].idTask : k \in 1..Len(last.recordset)}
          = {prev[i].idTask : i \in
               {j \in 1..Len(prev) :
                  /\ prev[j].idAccount = last.idAccount
                  /\ prev[j].idUser = last.idUser
                  /\ prev[j].deleted = FALSE
                  /\ FilterPasses(last.req.status, prev[j].status)
                  /\ FilterPasses(last.req.priority, prev[j].priority)}}

(***************************************************************************)
(*                    Properties of the field checks                       *)
(***************************************************************************)
\* the length of s without its leading and trailing characters of ws
TrimmedLen(s, ws) ==
  LET leading == {i \in 1..Len(s) : \A j \in 1..i : s[j] \in ws}
      trailing == {i \in 1..Len(s) : \A j \in i..Len(s) : s[j] \in ws}
  IN IF Cardinality(leading) = Len(s) THEN 0
     ELSE Len(s) - Cardinality(leading) - Cardinality(trailing)

Blank == {SPACE}
Whitespace == {SPACE, TAB}

\* the first rule, in the documented order, that the fields q of a call made
\* at clock violate
FirstViolated(q, clock, update) ==
  IF q.title = Null \/ TrimmedLen(Val(q.title), Blank) = 0 THEN "titleRequired"
  ELSE IF TrimmedLen(Val(q.title), Blank) < 3 THEN "titleTooShort"
  ELSE IF Len(Val(q.title)) > 100 THEN "titleTooLong"
  ELSE IF q.description # Null /\ Len(Val(q.description)) > 1000
    THEN "descriptionTooLong"
  ELSE IF q.dueDate # Null /\ Val(q.dueDate) < CastAsDate(clock)
    THEN "dueDateInPast"
  ELSE IF Val(q.priority) \notin {0, 1, 2} THEN "invalidPriority"
  ELSE IF update /\ Val(q.status) \notin {0, 1, 2} THEN "invalidStatus"
  ELSE "none"

\* C8: Create and Update report the first violated rule of the order
\* titleRequired, titleTooShort, titleTooLong, descriptionTooLong,
\* dueDateInPast, invalidPriority, invalidStatus (Update only), whatever
\* the caller's scope and the addressed task, and change nothing; fields
\* that violate no rule give no validation error.
C8_FirstFailureWins ==
  last.op \in {"spTaskCreate", "spTaskUpdate"}
  => LET first == FirstViolated(last.req, last.at, last.op = "spTaskUpdate")
     IN  /\ first # "none" => last.error = first /\ task = prev
         /\ first = "none" => last.error \notin ValidationErrors

\* C9: a Create or an Update, called on the procedure or through POST /task
\* and PUT /task/:id, whose title has fewer than 3 characters after its
\* leading and trailing whitespace is removed fails with titleTooShort
\* (titleRequired is accepted for a title that is empty after trimming).
C9_ShortTitleRejected ==
  /\ ( /\ last.op \in {"spTaskCreate", "spTaskUpdate"}
       /\ last.req.title # Null
       /\ TrimmedLen(Val(last.req.title), Whitespace) < 3 )
     => \/ last.error = "titleTooShort"
        \/ /\ TrimmedLen(Val(last.req.title), Whitespace) = 0
           /\ last.error = "titleRequired"
  /\ ( /\ last.op \in {"postHandler", "putHandler"}
       /\ HasValue(last.req.title)
       /\ TrimmedLen(JsonValue(last.req.title), Whitespace) < 3 )
     => \/ last.error = "titleTooShort"
        \/ /\ TrimmedLen(JsonValue(last.req.title), Whitespace) = 0
           /\ last.error = "titleRequired"

\* C10: a Create or an Update whose title has more than 100 characters, at
\* least 3 of them after trimming, fails with titleTooLong; one whose title
\* is valid and whose description has more than 1000 characters fails with
\* descriptionTooLong; both store nothing, and no call given an over-long
\* title or description succeeds.
C10_OverlongRejected ==
  last.op \in {"spTaskCreate", "spTaskUpdate"}
  => /\ ( /\ last.req.title # Null
          /\ Len(Val(last.req.title)) > 100
          /\ TrimmedLen(Val(last.req.title), Blank) >= 3 )
        => last.error = "titleTooLong" /\ task = prev
     /\ ( /\ last.req.title # Null
          /\ Len(Val(last.req.title)) <= 100
          /\ TrimmedLen(Val(last.req.title), Blank) >= 3
          /\ last.req.description # Null
          /\ Len(Val(last.req.description)) > 1000 )
        => last.error = "descriptionTooLong" /\ task = prev
     /\ last.error = "ok"
        => /\ Len(Val(last.req.title)) <= 100
           /\ last.req.description # Null
              => Len(Val(last.req.description)) <= 1000

C12_EnumRangeRejected ==
  last.op \in {"spTaskCreate", "spTaskUpdate"}
  => LET first == FirstViolated(last.req, last.at, last.op = "spTaskUpdate")
     IN  /\ first = "invalidPriority"
            => last.error = "invalidPriority" /\ task = prev
         /\ first = "invalidStatus"
            => last.error = "invalidStatus" /\ task = prev

\* an Update with a valid priority and a status below the range has been
\* rejected
C12_Witness ==
  /\ last.op = "spTaskUpdate"
  /\ Val(last.req.priority) \in {0, 1, 2}
  /\ Val(last.req.status) < 0
  /\ last.error = "invalidStatus"

(***************************************************************************)
(*                      Invariants of the task table                       *)
(***************************************************************************)
\* C13: in every reachable state, whatever Create, Update and Delete calls
\* were made and whether they succeeded or failed, every row of the table
\* has its priority in {0,1,2} and its status in {0,1,2}.
C13_EnumDomains ==
  \A i \in 1..Len(task) :
    /\ task[i].priority \in {0, 1, 2}
    /\ task[i].status \in {0, 1, 2}

\* a task whose status an Update had set to 2 has been the target of an
\* Update with a value outside the range
C13_Witness ==
  /\ last.op = "spTaskUpdate"
  /\ \/ Val(last.req.status) \notin {0, 1, 2}
     \/ Val(last.req.priority) \notin {0, 1, 2}
  /\ \E i \in 1..Len(task) :
       /\ task[i].idTask = last.idTask
       /\ Owns(last, task[i])
       /\ task[i].deleted = FALSE
       /\ task[i].status = 2

C15_StoredText ==
  \A i \in 1..Len(task) :
    /\ Len(task[i].title) >= 3
    /\ Len(task[i].title) <= 100
    /\ TrimmedLen(task[i].title, Whitespace) = Len(task[i].title)
    /\ task[i].description # Null => Len(Val(task[i].description)) <= 1000

(***************************************************************************)
(*                     Properties of the transactions                      *)
(***************************************************************************)
\* C16: Create, Update and Delete are all-or-nothing.  A call that fails,
\* before or inside its transaction, raises its error to the caller, returns
\* no record and leaves the table as it found it; a call that succeeds has
\* written once: a Create has appended one row, an Update or a Delete has
\* changed the addressed row and no other.
C16_AllOrNothing ==
  last.op \in {"spTaskCreate", "spTaskUpdate", "spTaskDelete"}
  => /\ last.error # "ok"
        => /\ task = prev
           /\ last.number # 0
           /\ last.recordset = <<>>
     /\ (last.error = "ok" /\ last.op = "spTaskCreate")
        => /\ Len(task) = Len(prev) + 1
           /\ SubSeq(task, 1, Len(prev)) = prev
           /\ last.recordset = <<[idTask |-> task[Len(task)].idTask]>>
     /\ (last.error = "ok" /\ last.op \in {"spTaskUpdate", "spTaskDelete"})
        => /\ Len(task) = Len(prev)
           /\ \A i \in 1..Len(prev) :
                task[i] # prev[i] => prev[i].idTask = last.idTask
           /\ last.recordset = <<[idTask |-> last.idTask]>>

\* the UPDATE of a Delete addressed to the caller's task has failed inside
\* the transaction, and the task is still there
C16_Witness ==
  /\ last.op = "spTaskDelete"
  /\ last.number = DeadlockNumber
  /\ \E i \in 1..Len(task) :
       /\ task[i].idTask = last.idTask
       /\ Owns(last, task[i])
       /\ task[i].deleted = FALSE

(***************************************************************************)
(*                     Properties of the error mapping                     *)
(***************************************************************************)
Handlers ==
  {"postHandler", "getHandler", "detailGetHandler", "putHandler",
   "deleteHandler"}

\* the messages the procedures throw with error number 51000
RepositoryCodes ==
  ValidationErrors \cup {"accountDoesntExist", "userDoesntExist",
                         "taskDoesntExist"}

\* C17: in every task handler a repository failure with error number 51000
\* is answered HTTP 400 with the failure's code as its message, and any
\* other repository failure is answered HTTP 500, INTERNAL_SERVER_ERROR,
\* 'An unexpected error occurred', with nothing of the original error.
C17_ErrorMapping ==
  last.op \in Handlers
  => /\ last.number = ThrowNumber
        => /\ last.http = 400
           /\ last.error \in RepositoryCodes
           /\ last.recordset = <<>>
     /\ last.number \notin {0, ThrowNumber}
        => /\ last.http = 500
           /\ last.code = "INTERNAL_SERVER_ERROR"
           /\ last.error = "An unexpected error occurred"
           /\ last.recordset = <<>>

\* a PUT whose UPDATE the engine failed has been answered
C17_Witness ==
  /\ last.op = "putHandler"
  /\ last.number = DeadlockNumber
  /\ last.http = 500
  /\ \E i \in 1..Len(task) : task[i].idTask = last.idTask /\ Owns(last, task[i])

\* the body q of a request violates a field rule
ViolatesFieldRule(q, update) ==
  \/ HasValue(q.title)
       /\ (Len(JsonValue(q.title)) < 3 \/ Len(JsonValue(q.title)) > 100)
  \/ HasValue(q.description) /\ Len(JsonValue(q.description)) > 1000
  \/ HasValue(q.priority) /\ JsonValue(q.priority) \notin {0, 1, 2}
  \/ update /\ HasValue(q.status) /\ JsonValue(q.status) \notin {0, 1, 2}

\* C18: a POST /task or PUT /task/:id whose body violates a field rule
\* (title shorter than 3 or longer than 100 characters, description longer
\* than 1000, priority or status outside 0..2) is answered as a client
\* error carrying the validation code, never HTTP 500, also when the
\* request schema catches the violation.
C18_ValidationIsClientError ==
  ( /\ last.op \in {"postHandler", "putHandler"}
    /\ ViolatesFieldRule(last.req, last.op = "putHandler") )
  => /\ last.http = 400
     /\ last.error \in ValidationErrors

(***************************************************************************)
(*                     Properties of the tenancy checks                    *)
(***************************************************************************)
\* C19: a Create whose fields pass their checks, a Get, a List and a Delete
\* fail with accountDoesntExist when no account has the caller's idAccount,
\* otherwise with userDoesntExist when no user with the caller's idUser
\* belongs to that account, also when that user belongs to another account;
\* both come before taskDoesntExist, and a call that fails so changes
\* nothing.
C19_TenancyGuard ==
  ( /\ last.op \in {"spTaskCreate", "spTaskGet", "spTaskList", "spTaskDelete"}
    /\ last.error \notin ValidationErrors )
  => /\ ~AccountExists(last.idAccount)
        => last.error = "accountDoesntExist" /\ task = prev
     /\ (AccountExists(last.idAccount)
           /\ ~UserExists(last.idUser, last.idAccount))
        => last.error = "userDoesntExist" /\ task = prev
     /\ ExistingScope(last)
        => last.error \notin {"accountDoesntExist", "userDoesntExist"}

\* a Get by a user of another account, for a task id no row has, has
\* failed with userDoesntExist
C19_Witness ==
  /\ last.op = "spTaskGet"
  /\ last.error = "userDoesntExist"
  /\ \E usr \in user : usr.idUser = last.idUser
  /\ \A i \in 1..Len(task) : task[i].idTask # last.idTask

\* C20: an Update does not check the account and the user.  It never fails
\* with accountDoesntExist or userDoesntExist, and an Update with valid
\* fields made under a missing account, or under a user that does not
\* belong to the account, fails with taskDoesntExist and changes nothing.
C20_UpdateSkipsTenancy ==
  last.op = "spTaskUpdate"
  => /\ last.error \notin {"accountDoesntExist", "userDoesntExist"}
     /\ (~ExistingScope(last) /\ last.error \notin ValidationErrors)
        => last.error = "taskDoesntExist" /\ task = prev

\* an Update with valid fields, made under a missing account with the id of
\* a stored task, has failed with taskDoesntExist
C20_Witness ==
  /\ last.op = "spTaskUpdate"
  /\ ~AccountExists(last.idAccount)
  /\ last.error = "taskDoesntExist"
  /\ \E i \in 1..Len(task) :
       task[i].idTask = last.idTask /\ task[i].deleted = FALSE

(***************************************************************************)
(*                     Properties of the request schemas                   *)
(***************************************************************************)
\* C21: POST /task treats description, dueDate and priority as optional.  A
\* request whose body carries only a valid title is accepted and creates a
\* task with description null, dueDate null and priority 1.
C21_OnlyTitleAccepted ==
  ( /\ last.op = "postHandler"
    /\ HasValue(last.req.title)
    /\ Len(JsonValue(last.req.title)) >= 3
    /\ Len(JsonValue(last.req.title)) <= 100
    /\ TrimmedLen(JsonValue(last.req.title), Whitespace)
         = Len(JsonValue(last.req.title))
    /\ last.req.description = Undefined
    /\ last.req.dueDate = Undefined
    /\ last.req.priority = Undefined )
  => /\ last.http = 200
     /\ Len(task) = Len(prev) + 1
     /\ task[Len(task)].description = Null
     /\ task[Len(task)].dueDate = Null
     /\ task[Len(task)].priority = 1

(***************************************************************************)
(*                     Properties of concurrent calls                      *)
(***************************************************************************)
\* the Updates of the task idTask that have reported success
UpdatesOf(idTask) ==
  {s \in Sessions : /\ proc[s].op = "spTaskUpdate"
                    /\ proc[s].pc = "done"
                    /\ proc[s].error = "ok"
                    /\ proc[s].idTask = idTask}

\* the one of the sessions S whose transaction committed last
LastWriter(S) ==
  CHOOSE t \in S : \A u \in S : proc[u].stamp <= proc[t].stamp

\* C22: when two or more Updates of the same non-deleted task have both
\* reported success, in any interleaving of their steps, the stored row
\* carries the title, description, dueDate, priority and status of exactly
\* one of them, the one whose write was applied last; the values of two
\* Updates are never mixed in one row.
C22_LastWriterWins ==
  \A i \in 1..Len(task) :
    ( /\ task[i].deleted = FALSE
      /\ Cardinality(UpdatesOf(task[i].idTask)) >= 2 )
    => LET q == proc[LastWriter(UpdatesOf(task[i].idTask))].req
       IN /\ task[i].title = Val(q.title)
          /\ task[i].description = q.description
          /\ task[i].dueDate = q.dueDate
          /\ task[i].priority = Val(q.priority)
          /\ task[i].status = Val(q.status)

\* two Updates of one task with different field values have both reported
\* success, and the one that wrote last had made its existence check before
\* the other one wrote
C22_Witness ==
  \E s, t \in Sessions :
    /\ s \in UpdatesOf(proc[t].idTask)
    /\ t \in UpdatesOf(proc[s].idTask)
    /\ proc[s].req # proc[t].req
    /\ proc[s].stamp < proc[t].stamp
    /\ proc[t].checked <= proc[s].stamp
    /\ proc[s].rows = 1
    /\ proc[t].rows = 1
    /\ \E i \in 1..Len(task) :
         task[i].idTask = proc[s].idTask /\ task[i].deleted = FALSE

\* the Deletes of the task idTask that have finished
DeletesOf(idTask) ==
  {s \in Sessions : /\ proc[s].op = "spTaskDelete"
                    /\ proc[s].pc = "done"
                    /\ proc[s].idTask = idTask}

\* C24: when two Delete calls for the same non-deleted task have run, in
\* any interleaving of their existence checks and writes, exactly one has
\* reported success and the other has failed with taskDoesntExist.  (The
\* task was there and not deleted: one of the two has found it.)
C24_OneDeleteSucceeds ==
  \A s, t \in Sessions :
    ( /\ s # t
      /\ s \in DeletesOf(proc[t].idTask)
      /\ t \in DeletesOf(proc[s].idTask)
      /\ proc[s].error = "ok" \/ proc[t].error = "ok" )
    => \/ proc[s].error = "ok" /\ proc[t].error = "taskDoesntExist"
       \/ proc[t].error = "ok" /\ proc[s].error = "taskDoesntExist"

\* C25: an Update reports success only if its UPDATE statement modified the
\* task.  In every interleaving with a concurrent Delete of the same task,
\* an Update whose statement matches no non-deleted row does not report
\* success.
C25_UpdateSuccessMeansWritten ==
  \A s \in Sessions :
    ( /\ proc[s].op = "spTaskUpdate"
      /\ proc[s].pc = "done"
      /\ proc[s].rows = 0 )
    => /\ proc[s].error # "ok"
       /\ proc[s].recordset = <<>>

\* C26: soft deletion is final.  No step of a Create, an Update or a Delete,
\* in any interleaving, changes a row whose deleted flag is set (the flag,
\* its fields and dateModified stay as they are), and the table never
\* loses a row.
C26_DeletionIsFinal ==
  [][ /\ Len(task') >= Len(task)
      /\ \A i \in 1..Len(task) :
           task[i].deleted = TRUE => task'[i] = task[i] ]_vars

\* an Update of a deleted task that had found the task before it was
\* deleted has run its transaction
C26_Witness ==
  \E s \in Sessions :
    /\ proc[s].op = "spTaskUpdate"
    /\ proc[s].pc = "done"
    /\ proc[s].stamp > 0
    /\ \E i \in 1..Len(task) :
         /\ task[i].idTask = proc[s].idTask
         /\ task[i].deleted = TRUE
         /\ \E d \in Sessions :
              /\ proc[d].op = "spTaskDelete"
              /\ proc[d].idTask = proc[s].idTask
              /\ proc[d].rows = 1
              /\ proc[d].stamp < proc[s].stamp

(***************************************************************************)
(*                     Properties of the frame of a call                   *)
(***************************************************************************)
\* C27: every Create, Update or Delete that ends with a validation, tenancy
\* or existence error, and every Get and List call, leaves every task row
\* unchanged: no row is added and no field changes, dateModified included.
C27_FailedAndReadCallsChangeNothing ==
  ( \/ last.op \in {"spTaskGet", "spTaskList"}
    \/ /\ last.op \in {"spTaskCreate", "spTaskUpdate", "spTaskDelete"}
       /\ last.error \in RepositoryCodes )
  => task = prev

\* a Create with valid fields has been refused for its account or user
\* while the table holds a task
C27_Witness ==
  /\ last.op = "spTaskCreate"
  /\ last.error \in {"accountDoesntExist", "userDoesntExist"}
  /\ Len(task) > 0
  /\ task = prev

(***************************************************************************)
(*                     Properties of the routed requests                   *)
(***************************************************************************)
Routes ==
  {"POST /task", "GET /task", "GET /task/:id", "PUT /task/:id",
   "DELETE /task/:id"}

\* the request of the last call reached the repository
Handed == last.op \in Routes /\ last.error # "ZodError"

\* C23: GET, PUT and DELETE on /task/:id operate on the task whose idTask
\* is the :id of the path: the idTask handed to taskGet, taskUpdate and
\* taskDelete is the path value whatever keys (one named id included) the
\* body or the query string carry.
C23_PathIdIsUsed ==
  ( /\ Handed
    /\ last.op \in {"GET /task/:id", "PUT /task/:id", "DELETE /task/:id"} )
  => last.idTask = Val(ToNumber(last.req.params.id))

\* C28: the tenancy scope of a request does not depend on its content.  The
\* (idAccount, idUser) every handler hands to the repository is the
\* credential of validateRequest, whatever the path, the body and the query
\* string carry (keys named idAccount or idUser included), and a task a POST
\* creates belongs to that credential.
C28_ScopeIsTheCredential ==
  Handed
  => /\ last.idAccount = credential.idAccount
     /\ last.idUser = credential.idUser
     /\ (last.op = "POST /task" /\ last.http = 200)
        => /\ task[Len(task)].idAccount = credential.idAccount
           /\ task[Len(task)].idUser = credential.idUser
     /\ \A i \in 1..Len(prev) :
          task[i] # prev[i] => /\ prev[i].idAccount = credential.idAccount
                               /\ prev[i].idUser = credential.idUser

\* a PUT whose body names the account and the user of another tenant, who
\* owns the task of the path, has been answered taskDoesntExist
C28_Witness ==
  /\ last.op = "PUT /task/:id"
  /\ last.req.body.idAccount = JNumber(2)
  /\ last.req.body.idUser = JNumber(3)
  /\ last.error = "taskDoesntExist"
  /\ \E i \in 1..Len(task) :
       /\ task[i].idTask = last.idTask
       /\ task[i].idAccount = 2
       /\ task[i].idUser = 3
       /\ task[i].deleted = FALSE

\* C29: every form value taskCreateFormSchema accepts, once TaskForm's
\* onSubmit has made it the create payload, is accepted by the body schema
\* of POST /task: the form validates at least as strictly as the backend,
\* and both encode title, description, dueDate and priority the same way.
C29_FormPayloadAccepted ==
  last.op = "TaskForm.onSubmit" => last.error # "ZodError"

(***************************************************************************)
(*                     Properties of the connection pool                   *)
(***************************************************************************)
\* C30: across any interleaving of concurrent dbRequest calls getPool
\* initialises the pool at most once.  While no connection attempt has
\* failed, sql.connect has been called at most one time and every caller
\* has received the same pool; a failed attempt leaves the pool unset, so
\* that a later call tries again.
C30_PoolInitialisedOnce ==
  /\ driver.failures = 0
       => /\ driver.connects <= 1
          /\ \A c, d \in Callers :
               (caller[c].pool # Null /\ caller[d].pool # Null)
               => caller[c].pool = caller[d].pool
  /\ (driver.failures > 0 /\ driver.failures = driver.connects)
       => pool = Null

====
